---- MODULE Spec2Model ----
(***************************************************************************)
(* Model of WFucom.py: the synthetic municipal-finance generator of        *)
(* WallisFutunaCommuneFinanceAnalyzer (configuration resolver, the 22      *)
(* per-metric series generators, the table assembly and the shock pass     *)
(* _add_municipal_trends).                                                 *)
(*                                                                         *)
(* Numbers.  The program computes every cell as a product of a few         *)
(* decimal constants.  A cell is kept here as the record of its factors,   *)
(* each an exact integer in a fixed unit, so that no rounding is modelled  *)
(* and no product leaves the integer range of the checker:                 *)
(*    base    population_base, budget_base, or 1 for the ratio columns     *)
(*    frac    <<n, d>>: the fixed fraction n/d of the base                 *)
(*    growth  trend factor in 1/1000   (1 + rate * i  ->  1000 + rate*i)   *)
(*    ymult   year multiplier in 1/100 (1.6 -> 160, none -> 100)           *)
(*    spec    specialty multiplier in 1/10 (1.5 -> 15, none -> 10)         *)
(*    noise   noise factor in 1/100    (no noise -> 100)                   *)
(*    shock   the factors, in 1/100, the shock pass has multiplied in, in  *)
(*            the order of the multiplications (`x *= 1.4` appends 140)    *)
(* The value of a cell is the product of all of these.                     *)
(***************************************************************************)
EXTENDS Integers, Sequences, FiniteSets, TLC

\* ------------------------------------------------------------------ bounds

\* The noise source is exercised with seeds 0..MaxSeed (seed 0: every draw 1).
MaxSeed == 5

\* ------------------------------------------------------- program constants

start_year == 2002
end_year == 2025

\* Names given to the constructor that are not keys of the registry.
UnknownNames == {"Leava", "Paris"}

\* The registry of _get_commune_config.
configs ==
    [x \in {"Mata-Utu", "Hahake", "Hihifo", "Mua", "Sigave", "Alo", "default"} |->
       CASE x = "Mata-Utu" ->
              [population_base |-> 1200, budget_base |-> 35, type |-> "chef_lieu",
               specialites |-> <<"administration", "commerce", "port", "tourisme", "services">>]
         [] x = "Hahake" ->
              [population_base |-> 2500, budget_base |-> 30, type |-> "district",
               specialites |-> <<"agriculture", "elevage", "artisanat", "culture">>]
         [] x = "Hihifo" ->
              [population_base |-> 1800, budget_base |-> 28, type |-> "district",
               specialites |-> <<"peche", "agriculture", "tourisme", "patrimoine">>]
         [] x = "Mua" ->
              [population_base |-> 2200, budget_base |-> 32, type |-> "district",
               specialites |-> <<"agriculture", "elevage", "artisanat", "services">>]
         [] x = "Sigave" ->
              [population_base |-> 1500, budget_base |-> 28, type |-> "district_futuna",
               specialites |-> <<"peche", "agriculture", "culture", "artisanat">>]
         [] x = "Alo" ->
              [population_base |-> 2000, budget_base |-> 30, type |-> "district_futuna",
               specialites |-> <<"agriculture", "elevage", "peche", "tourisme">>]
         [] x = "default" ->
              [population_base |-> 2000, budget_base |-> 30, type |-> "district",
               specialites |-> <<"agriculture", "peche", "artisanat", "services_locaux">>]]

\* Every name the constructor is tried with.
CommuneNames == DOMAIN configs \cup UnknownNames

\* The value of self.config before the constructor has run, and what a
\* lookup without a fallback yields for a missing key.
NoConfig ==
    [population_base |-> 0, budget_base |-> 0, type |-> "", specialites |-> <<>>]

\* configs.get(self.commune): the lookup without its fallback argument.
Mut_get_commune_config(commune) ==
    IF commune \in DOMAIN configs THEN configs[commune] ELSE NoConfig

\* configs.get(self.commune, configs["default"])
_get_commune_config(commune) ==
    IF commune \in DOMAIN configs THEN configs[commune] ELSE configs["default"]

\* `tag in self.config["specialites"]` looking at the first entry only.
Mut_InList(tag, list) == Len(list) > 0 /\ list[1] = tag

\* `tag in self.config["specialites"]`
InList(tag, list) == \E k \in 1..Len(list) : list[k] = tag

\* ------------------------------------------------------------ noise source

\* Standard deviates the generator is exercised with.  np.random.normal has
\* no clamp: the last entry stands for a deviate far in the lower tail.
ZVals == <<0, 1, -1, 2, -30>>

\* The n-th standard deviate (n = 0, 1, ...) of the stream started with `seed`.
Deviate(seed, n) ==
    IF seed = 0 THEN 0 ELSE ZVals[((seed + n) % Len(ZVals)) + 1]

\* np.random.normal(1, sd) in 1/100, sd given in 1/100: 1 + sd * z.
Normal(sd, seed, n) == 100 + sd * Deviate(seed, n)

\* ------------------------------------------------------------------- cells

Cell(base, frac, growth, ymult, spec, noise) ==
    [base |-> base, frac |-> frac, growth |-> growth, ymult |-> ymult,
     spec |-> spec, noise |-> noise, shock |-> <<>>]

\* date_range with the end taken as exclusive: the last year is lost.
Mut_date_range(first, last) == [k \in 1..(last - first) |-> first + k - 1]

\* pd.date_range(start=f'{start}-01-01', end=f'{end}-12-31', freq='Y'), each
\* date kept as its year (the only part of a date the program reads).
date_range(first, last) == [k \in 1..(last - first + 1) |-> first + k - 1]

\* [date.year for date in dates]
YearList(dates) == [k \in 1..Len(dates) |-> dates[k]]

\* ------------------------------------------------------- series generators
\* In every generator k is the position in `dates` (1-based), i = k - 1 the
\* index of enumerate(dates), and n0 the number of noise draws consumed
\* before the call; the generator draws once per year, in year order.

\* The growth-rate selection of _simulate_population with the else branch
\* given the chef_lieu rate instead of the district rate.
Mut_PopulationRate(type) ==
    IF type = "chef_lieu" THEN 10
    ELSE IF type = "district_futuna" THEN 8
    ELSE 10

\* The if / elif / else of _simulate_population, rate in 1/1000.
PopulationRate(type) ==
    IF type = "chef_lieu" THEN 10
    ELSE IF type = "district_futuna" THEN 8
    ELSE 9

\* The if / elif / else of _simulate_total_revenue, rate in 1/1000.
RevenueRate(type) ==
    IF type = "chef_lieu" THEN 28
    ELSE IF type = "district_futuna" THEN 25
    ELSE 26

_simulate_population(config, dates) ==
    [k \in 1..Len(dates) |->
        Cell(config.population_base, <<1, 1>>,
             1000 + PopulationRate(config.type) * (k - 1), 100, 10, 100)]

\* _simulate_households with a shrinking trend (1 - 0.05 * i), which turns
\* negative within the year range.
Mut_simulate_households(config, dates) ==
    [k \in 1..Len(dates) |->
        Cell(config.population_base, <<10, 45>>, 1000 - 50 * (k - 1), 100, 10, 100)]

_simulate_households(config, dates) ==
    [k \in 1..Len(dates) |->
        Cell(config.population_base, <<10, 45>>, 1000 + 8 * (k - 1), 100, 10, 100)]

\* _simulate_total_revenue with the noise drawn once, before the loop, and
\* used for every year.
Mut_simulate_total_revenue(config, dates, seed, n0) ==
    [k \in 1..Len(dates) |->
        Cell(config.budget_base, <<1, 1>>,
             1000 + RevenueRate(config.type) * (k - 1), 100, 10,
             Normal(8, seed, n0))]

_simulate_total_revenue(config, dates, seed, n0) ==
    [k \in 1..Len(dates) |->
        Cell(config.budget_base, <<1, 1>>,
             1000 + RevenueRate(config.type) * (k - 1), 100, 10,
             Normal(8, seed, n0 + k - 1))]

_simulate_tax_revenue(config, dates, seed, n0) ==
    [k \in 1..Len(dates) |->
        Cell(config.budget_base, <<25, 100>>, 1000 + 15 * (k - 1), 100, 10,
             Normal(9, seed, n0 + k - 1))]

_simulate_state_grants(config, dates, seed, n0) ==
    [k \in 1..Len(dates) |->
        LET year == dates[k]
            increase == IF year >= 2010 THEN 1000 + 12 * (year - 2010) ELSE 1000
        IN  Cell(config.budget_base, <<55, 100>>, increase, 100, 10,
                 Normal(6, seed, n0 + k - 1))]

_simulate_territorial_grants(config, dates, seed, n0) ==
    [k \in 1..Len(dates) |->
        LET year == dates[k]
            increase == IF year >= 2005 THEN 1000 + 10 * (year - 2005) ELSE 1000
        IN  Cell(config.budget_base, <<12, 100>>, increase, 100, 10,
                 Normal(7, seed, n0 + k - 1))]

_simulate_other_revenue(config, dates, seed, n0) ==
    [k \in 1..Len(dates) |->
        Cell(config.budget_base, <<8, 100>>, 1000 + 18 * (k - 1), 100, 10,
             Normal(10, seed, n0 + k - 1))]

_simulate_total_expenses(config, dates, seed, n0) ==
    [k \in 1..Len(dates) |->
        Cell(config.budget_base, <<98, 100>>, 1000 + 26 * (k - 1), 100, 10,
             Normal(7, seed, n0 + k - 1))]

_simulate_operating_expenses(config, dates, seed, n0) ==
    [k \in 1..Len(dates) |->
        Cell(config.budget_base, <<68, 100>>, 1000 + 24 * (k - 1), 100, 10,
             Normal(6, seed, n0 + k - 1))]

_simulate_investment_expenses(config, dates, seed, n0) ==
    [k \in 1..Len(dates) |->
        LET year == dates[k]
            multiplier == IF year \in {2006, 2012, 2018, 2023} THEN 160
                          ELSE IF year \in {2008, 2014, 2020} THEN 80
                          ELSE 100
        IN  Cell(config.budget_base, <<30, 100>>, 1000 + 22 * (k - 1), multiplier, 10,
                 Normal(16, seed, n0 + k - 1))]

_simulate_debt_charges(config, dates, seed, n0) ==
    [k \in 1..Len(dates) |->
        LET year == dates[k]
            increase == IF year >= 2005 THEN 1000 + 9 * (year - 2005) ELSE 1000
        IN  Cell(config.budget_base, <<6, 100>>, increase, 100, 10,
                 Normal(10, seed, n0 + k - 1))]

_simulate_staff_costs(config, dates, seed, n0) ==
    [k \in 1..Len(dates) |->
        Cell(config.budget_base, <<48, 100>>, 1000 + 26 * (k - 1), 100, 10,
             Normal(5, seed, n0 + k - 1))]

_simulate_gross_savings(config, dates, seed, n0) ==
    [k \in 1..Len(dates) |->
        LET year == dates[k]
            improvement == IF year >= 2010 THEN 1000 + 7 * (year - 2010) ELSE 1000
        IN  Cell(config.budget_base, <<2, 100>>, improvement, 100, 10,
                 Normal(13, seed, n0 + k - 1))]

_simulate_total_debt(config, dates, seed, n0) ==
    [k \in 1..Len(dates) |->
        LET year == dates[k]
            change == IF year \in {2006, 2012, 2018, 2023} THEN 125
                      ELSE IF year \in {2009, 2015, 2021} THEN 92
                      ELSE 100
        IN  Cell(config.budget_base, <<75, 100>>, 1000, change, 10,
                 Normal(9, seed, n0 + k - 1))]

\* _simulate_debt_ratio with the threshold of _simulate_debt_charges (2005)
\* in place of 2010.
Mut_simulate_debt_ratio(config, dates, seed, n0) ==
    [k \in 1..Len(dates) |->
        LET year == dates[k]
            improvement == IF year >= 2005 THEN 1000 - 10 * (year - 2005) ELSE 1000
        IN  Cell(1, <<70, 100>>, improvement, 100, 10,
                 Normal(7, seed, n0 + k - 1))]

_simulate_debt_ratio(config, dates, seed, n0) ==
    [k \in 1..Len(dates) |->
        LET year == dates[k]
            improvement == IF year >= 2010 THEN 1000 - 10 * (year - 2010) ELSE 1000
        IN  Cell(1, <<70, 100>>, improvement, 100, 10,
                 Normal(7, seed, n0 + k - 1))]

_simulate_tax_rate(config, dates, seed, n0) ==
    [k \in 1..Len(dates) |->
        LET year == dates[k]
            increase == IF year >= 2010 THEN 1000 + 4 * (year - 2010) ELSE 1000
        IN  Cell(1, <<80, 100>>, increase, 100, 10,
                 Normal(4, seed, n0 + k - 1))]

_simulate_agriculture_investment(config, dates, seed, n0) ==
    [k \in 1..Len(dates) |->
        LET year == dates[k]
            multiplier == IF InList("agriculture", config.specialites) THEN 15 ELSE 8
            year_multiplier == IF year \in {2005, 2010, 2015, 2020} THEN 180 ELSE 100
        IN  Cell(config.budget_base, <<7, 100>>, 1000 + 26 * (k - 1), year_multiplier,
                 multiplier, Normal(15, seed, n0 + k - 1))]

_simulate_fishing_investment(config, dates, seed, n0) ==
    [k \in 1..Len(dates) |->
        LET year == dates[k]
            multiplier == IF InList("peche", config.specialites) THEN 16 ELSE 7
            year_multiplier == IF year \in {2007, 2013, 2019, 2024} THEN 170 ELSE 100
        IN  Cell(config.budget_base, <<6, 100>>, 1000 + 28 * (k - 1), year_multiplier,
                 multiplier, Normal(16, seed, n0 + k - 1))]

\* _simulate_transport_investment testing the tag "port" for "transport".
Mut_simulate_transport_investment(config, dates, seed, n0) ==
    [k \in 1..Len(dates) |->
        LET year == dates[k]
            multiplier == IF InList("port", config.specialites) THEN 14 ELSE 9
            year_multiplier == IF year \in {2006, 2012, 2018, 2023} THEN 160 ELSE 100
        IN  Cell(config.budget_base, <<5, 100>>, 1000 + 24 * (k - 1), year_multiplier,
                 multiplier, Normal(14, seed, n0 + k - 1))]

_simulate_transport_investment(config, dates, seed, n0) ==
    [k \in 1..Len(dates) |->
        LET year == dates[k]
            multiplier == IF InList("transport", config.specialites) THEN 14 ELSE 9
            year_multiplier == IF year \in {2006, 2012, 2018, 2023} THEN 160 ELSE 100
        IN  Cell(config.budget_base, <<5, 100>>, 1000 + 24 * (k - 1), year_multiplier,
                 multiplier, Normal(14, seed, n0 + k - 1))]

\* _simulate_education_investment with the cycle multiplier typed 0.6 for 1.6.
Mut_simulate_education_investment(config, dates, seed, n0) ==
    [k \in 1..Len(dates) |->
        LET year == dates[k]
            multiplier == IF InList("education", config.specialites) THEN 14 ELSE 9
            year_multiplier == IF year \in {2008, 2014, 2020} THEN 60 ELSE 100
        IN  Cell(config.budget_base, <<6, 100>>, 1000 + 27 * (k - 1), year_multiplier,
                 multiplier, Normal(17, seed, n0 + k - 1))]

_simulate_education_investment(config, dates, seed, n0) ==
    [k \in 1..Len(dates) |->
        LET year == dates[k]
            multiplier == IF InList("education", config.specialites) THEN 14 ELSE 9
            year_multiplier == IF year \in {2008, 2014, 2020} THEN 160 ELSE 100
        IN  Cell(config.budget_base, <<6, 100>>, 1000 + 27 * (k - 1), year_multiplier,
                 multiplier, Normal(17, seed, n0 + k - 1))]

\* _simulate_health_investment with the cycle multiplier left at 1.0 in the
\* cycle years (the `if year in [...]` branch lost).
Mut_simulate_health_investment(config, dates, seed, n0) ==
    [k \in 1..Len(dates) |->
        LET multiplier == IF InList("sante", config.specialites) THEN 15 ELSE 9
        IN  Cell(config.budget_base, <<5, 100>>, 1000 + 25 * (k - 1), 100,
                 multiplier, Normal(16, seed, n0 + k - 1))]

_simulate_health_investment(config, dates, seed, n0) ==
    [k \in 1..Len(dates) |->
        LET year == dates[k]
            multiplier == IF InList("sante", config.specialites) THEN 15 ELSE 9
            year_multiplier == IF year \in {2009, 2015, 2021} THEN 170 ELSE 100
        IN  Cell(config.budget_base, <<5, 100>>, 1000 + 25 * (k - 1), year_multiplier,
                 multiplier, Normal(16, seed, n0 + k - 1))]

_simulate_culture_investment(config, dates, seed, n0) ==
    [k \in 1..Len(dates) |->
        LET year == dates[k]
            multiplier == IF InList("culture", config.specialites) THEN 16 ELSE 7
            year_multiplier == IF year \in {2010, 2016, 2022} THEN 170 ELSE 100
        IN  Cell(config.budget_base, <<4, 100>>, 1000 + 23 * (k - 1), year_multiplier,
                 multiplier, Normal(15, seed, n0 + k - 1))]

\* ------------------------------------------------------------ the table

\* The keys of `data` in the order generate_financial_data inserts them,
\* which is the column order of the DataFrame.
Columns ==
    << "Annee", "Population", "Menages",
       "Recettes_Totales", "Impots_Locaux", "Dotations_Etat",
       "Dotations_Territoriales", "Autres_Recettes",
       "Depenses_Totales", "Fonctionnement", "Investissement",
       "Charge_Dette", "Personnel",
       "Epargne_Brute", "Dette_Totale", "Taux_Endettement", "Taux_Fiscalite",
       "Investissement_Agriculture", "Investissement_Peche",
       "Investissement_Transport", "Investissement_Education",
       "Investissement_Sante", "Investissement_Culture" >>

\* The columns whose generator calls np.random.normal.
UsesNoise(col) == col \notin {"Annee", "Population", "Menages"}

\* The right-hand side of the assignment data[col] = ... in
\* generate_financial_data.
Simulate(col, config, dates, seed, n0) ==
    CASE col = "Annee" -> YearList(dates)
      [] col = "Population" -> _simulate_population(config, dates)
      [] col = "Menages" -> _simulate_households(config, dates)
      [] col = "Recettes_Totales" -> _simulate_total_revenue(config, dates, seed, n0)
      [] col = "Impots_Locaux" -> _simulate_tax_revenue(config, dates, seed, n0)
      [] col = "Dotations_Etat" -> _simulate_state_grants(config, dates, seed, n0)
      [] col = "Dotations_Territoriales" -> _simulate_territorial_grants(config, dates, seed, n0)
      [] col = "Autres_Recettes" -> _simulate_other_revenue(config, dates, seed, n0)
      [] col = "Depenses_Totales" -> _simulate_total_expenses(config, dates, seed, n0)
      [] col = "Fonctionnement" -> _simulate_operating_expenses(config, dates, seed, n0)
      [] col = "Investissement" -> _simulate_investment_expenses(config, dates, seed, n0)
      [] col = "Charge_Dette" -> _simulate_debt_charges(config, dates, seed, n0)
      [] col = "Personnel" -> _simulate_staff_costs(config, dates, seed, n0)
      [] col = "Epargne_Brute" -> _simulate_gross_savings(config, dates, seed, n0)
      [] col = "Dette_Totale" -> _simulate_total_debt(config, dates, seed, n0)
      [] col = "Taux_Endettement" -> _simulate_debt_ratio(config, dates, seed, n0)
      [] col = "Taux_Fiscalite" -> _simulate_tax_rate(config, dates, seed, n0)
      [] col = "Investissement_Agriculture" -> _simulate_agriculture_investment(config, dates, seed, n0)
      [] col = "Investissement_Peche" -> _simulate_fishing_investment(config, dates, seed, n0)
      [] col = "Investissement_Transport" -> _simulate_transport_investment(config, dates, seed, n0)
      [] col = "Investissement_Education" -> _simulate_education_investment(config, dates, seed, n0)
      [] col = "Investissement_Sante" -> _simulate_health_investment(config, dates, seed, n0)
      [] col = "Investissement_Culture" -> _simulate_culture_investment(config, dates, seed, n0)

\* ------------------------------------------------------------ shock pass

\* `df[col] *= f`: the whole column scaled instead of the cell of row i.
Mut_ScaleColumn(t, i, col, f) ==
    [t EXCEPT ![col] = [k \in 1..Len(@) |-> [@[k] EXCEPT !.shock = Append(@, f)]]]

\* `df.loc[i, col] *= f` done twice.
Mut_Scale(t, i, col, f) ==
    [t EXCEPT ![col][i].shock = Append(Append(@, f), f)]

\* df.loc[i, col] *= f, with f in 1/100.
Scale(t, i, col, f) ==
    [t EXCEPT ![col][i].shock = Append(@, f)]

\* The test `2008 <= year <= 2009` written with a strict lower bound.
Mut_InCrisisWindow(year) == 2008 < year /\ year <= 2009

\* The test `2008 <= year <= 2009`.
InCrisisWindow(year) == 2008 <= year /\ year <= 2009

\* The nested test `if year == 2020` lost: the rule fires in all of 2020..2021.
Mut_InCovidYear(year) == TRUE

\* The nested test `if year == 2020` inside `if 2020 <= year <= 2021`.
InCovidYear(year) == year = 2020

\* The body of the loop of _add_municipal_trends for the row of index i
\* (1-based here), on table t; the result is the table after the body.
_add_municipal_trends(t, i) ==
    LET year == t["Annee"][i]
        t1 == IF 2002 <= year /\ year <= 2005
              THEN Scale(Scale(t, i, "Investissement_Agriculture", 140),
                         i, "Investissement_Peche", 130)
              ELSE t
        t2 == IF InCrisisWindow(year)
              THEN Scale(Scale(Scale(t1, i, "Recettes_Totales", 94),
                               i, "Investissement", 85),
                         i, "Autres_Recettes", 88)
              ELSE IF 2010 <= year /\ year <= 2015
              THEN Scale(Scale(t1, i, "Investissement_Education", 130),
                         i, "Investissement_Sante", 140)
              ELSE t1
        t3 == IF 2020 <= year /\ year <= 2021
              THEN IF InCovidYear(year)
                   THEN Scale(Scale(t2, i, "Autres_Recettes", 78),
                              i, "Dotations_Etat", 115)
                   ELSE t2
              ELSE t2
        t4 == IF year >= 2022
              THEN Scale(Scale(Scale(t3, i, "Investissement", 114),
                               i, "Investissement_Agriculture", 112),
                         i, "Investissement_Peche", 110)
              ELSE t3
    IN  t4

\* The row df.iterrows() yields after the row of index i.
IterNext(i) == i + 1

\* -------------------------------------------------------------------- main

\* The number of method calls (generate_financial_data,
\* create_financial_analysis, _generate_financial_insights) a direct user of
\* the class makes on one analyzer.
MaxCalls == 2

\* The list `circonscriptions` of main.
circonscriptions == <<"Mata-Utu", "Hahake", "Hihifo", "Mua", "Sigave", "Alo">>

\* int(text) for the texts it accepts (surrounding blanks and a sign are
\* allowed); for any other text int() raises ValueError.
IntText ==
    [x \in {"1", "2", "3", "4", "5", "6", "0", "-1", "7", "42", " 3 "} |->
       CASE x = "1" -> 1 [] x = "2" -> 2 [] x = "3" -> 3 [] x = "4" -> 4
         [] x = "5" -> 5 [] x = "6" -> 6 [] x = "0" -> 0 [] x = "-1" -> -1
         [] x = "7" -> 7 [] x = "42" -> 42 [] x = " 3 " -> 3]

\* The lines the user is taken to type at the prompt.
Inputs == DOMAIN IntText \cup {"", "abc", "2.5", "Hahake"}

\* The try / except of main with the test `choix < 1` lost: 0 and negative
\* numbers index the list from its end (circonscriptions[choix-1]), and only
\* an index outside the list raises IndexError.
Mut_SelectCirconscription(text) ==
    IF text \in DOMAIN IntText
    THEN LET choix == IntText[text]
             n == Len(circonscriptions)
         IN  IF choix > n \/ choix <= -n
             THEN "Mata-Utu"
             ELSE IF choix >= 1 THEN circonscriptions[choix]
             ELSE circonscriptions[n + choix]
    ELSE "Mata-Utu"

\* The try / except of main: circonscription_selectionnee for the typed text.
SelectCirconscription(text) ==
    IF text \in DOMAIN IntText
    THEN LET choix == IntText[text]
         IN  IF choix < 1 \/ choix > Len(circonscriptions)
             THEN "Mata-Utu"
             ELSE circonscriptions[choix]
    ELSE "Mata-Utu"

\* financial_data.to_csv(output_file, index=False): one header row, then one
\* line per row of the table with the columns in the order of the frame.
to_csv(t, order) ==
    [header |-> order,
     lines |-> [i \in 1..Len(t["Annee"]) |-> [j \in 1..Len(order) |-> t[order[j]][i]]]]

\* The eight subplots of create_financial_analysis, in the order they are
\* drawn, with the columns each reads.
Subplots ==
    << <<"_plot_revenue_expenses", {"Annee", "Recettes_Totales", "Depenses_Totales"}>>,
       <<"_plot_revenue_structure",
         {"Annee", "Impots_Locaux", "Dotations_Etat", "Dotations_Territoriales",
          "Autres_Recettes"}>>,
       <<"_plot_expenses_structure",
         {"Annee", "Fonctionnement", "Investissement", "Charge_Dette", "Personnel"}>>,
       <<"_plot_investments",
         {"Annee", "Investissement_Agriculture", "Investissement_Peche",
          "Investissement_Transport", "Investissement_Education", "Investissement_Sante"}>>,
       <<"_plot_debt", {"Annee", "Dette_Totale", "Taux_Endettement"}>>,
       <<"_plot_performance_indicators", {"Annee", "Epargne_Brute", "Taux_Fiscalite"}>>,
       <<"_plot_demography", {"Annee", "Population", "Menages"}>>,
       <<"_plot_sectorial_investments",
         {"Annee", "Investissement_Agriculture", "Investissement_Peche",
          "Investissement_Transport", "Investissement_Education", "Investissement_Sante"}>> >>

\* What _generate_financial_insights prints of the analyzer: the type, the
\* specialties and which of the three conditional recommendations.
InsightsOf(analyzer) ==
    [commune |-> analyzer.commune,
     type |-> analyzer.config.type,
     specialites |-> analyzer.config.specialites,
     agriculture |-> InList("agriculture", analyzer.config.specialites),
     peche |-> InList("peche", analyzer.config.specialites),
     tourisme |-> InList("tourisme", analyzer.config.specialites)]

\* The cells that take the noise draws of one generator call, in draw order.
DrawOrder(col, dates) == [k \in 1..Len(dates) |-> <<col, k>>]

\* ------------------------------------------------------------------- state

VARIABLES
    pc,       \* where the program is: "new", "selected", "constructed",
              \* "assemble", "shock" (inside _add_municipal_trends),
              \* "returned", "exported", "previewed", "charted", "done"
    mode,     \* "main": a run of main; "api": the class used directly
    choix,    \* the text typed at the prompt of main
    selected, \* circonscription_selectionnee of main
    self,     \* the analyzer: commune, start_year, end_year, config
    seed,     \* the state the noise source starts from
    draws,    \* noise draws consumed so far
    dates,    \* local `dates` of generate_financial_data
    data,     \* local dict `data`: column name -> series
    cols,     \* the keys of `data` in insertion order
    df,       \* the DataFrame: column name -> series (empty before creation)
    row,      \* index of the row iterrows() yields next
    csv,      \* the exported file (empty before the export)
    figure,   \* the saved figure (empty before savefig)
    report,   \* the last insights report printed (empty before)
    calls,    \* method calls made on the analyzer so far
    visited,  \* history: the Annee of the rows the shock pass has visited
    passes,   \* history: entries into _add_municipal_trends in this call
    noiseLog, \* history: the cell each noise draw of this call went to
    log       \* history: the stages of the run, in order

vars ==
    <<pc, mode, choix, selected, self, seed, draws, dates, data, cols, df, row,
      csv, figure, report, calls, visited, passes, noiseLog, log>>

NoTable == <<>>

NoFile == <<>>

Init ==
    /\ pc = "new"
    /\ mode = ""
    /\ choix = ""
    /\ selected = ""
    /\ self = [commune |-> "", start_year |-> 0, end_year |-> 0, config |-> NoConfig]
    /\ seed \in 0..MaxSeed
    /\ draws = 0
    /\ dates = <<>>
    /\ data = NoTable
    /\ cols = <<>>
    /\ df = NoTable
    /\ row = 0
    /\ csv = NoFile
    /\ figure = NoFile
    /\ report = NoFile
    /\ calls = 0
    /\ visited = <<>>
    /\ passes = 0
    /\ noiseLog = <<>>
    /\ log = <<>>

\* The attributes __init__ sets.
NewAnalyzer(commune_name) ==
    [commune |-> commune_name,
     start_year |-> start_year,
     end_year |-> end_year,
     config |-> _get_commune_config(commune_name)]

\* main: the prompt, int(input(...)) and the try / except.
MainSelect(text) ==
    /\ pc = "new"
    /\ mode' = "main"
    /\ choix' = text
    /\ selected' = SelectCirconscription(text)
    /\ pc' = "selected"
    /\ UNCHANGED <<self, seed, draws, dates, data, cols, df, row, csv, figure,
                   report, calls, visited, passes, noiseLog, log>>

\* main: analyzer = WallisFutunaCommuneFinanceAnalyzer(circonscription_selectionnee)
MainConstruct ==
    /\ pc = "selected"
    /\ self' = NewAnalyzer(selected)
    /\ log' = Append(log, "config")
    /\ pc' = "constructed"
    /\ UNCHANGED <<mode, choix, selected, seed, draws, dates, data, cols, df, row,
                   csv, figure, report, calls, visited, passes, noiseLog>>

\* WallisFutunaCommuneFinanceAnalyzer(commune_name), called directly.
Construct(commune_name) ==
    /\ pc = "new"
    /\ mode' = "api"
    /\ self' = NewAnalyzer(commune_name)
    /\ log' = Append(log, "config")
    /\ pc' = "constructed"
    /\ UNCHANGED <<choix, selected, seed, draws, dates, data, cols, df, row, csv,
                   figure, report, calls, visited, passes, noiseLog>>

\* generate_financial_data, up to data = {'Annee': [...]}: the call of main,
\* the first call of a direct user, or a further call of a direct user.
BeginGenerate ==
    /\ \/ pc = "constructed"
       \/ pc = "returned" /\ mode = "api" /\ calls < MaxCalls
    /\ LET d == date_range(self.start_year, self.end_year)
       IN  /\ dates' = d
           /\ data' = ("Annee" :> Simulate("Annee", self.config, d, seed, draws))
    /\ cols' = <<"Annee">>
    /\ row' = 0
    /\ calls' = calls + 1
    /\ visited' = <<>>
    /\ passes' = 0
    /\ noiseLog' = <<>>
    /\ log' = Append(log, "series")
    /\ pc' = "assemble"
    /\ UNCHANGED <<mode, choix, selected, self, seed, draws, df, csv, figure, report>>

\* generate_financial_data: the next assignment data[col] = self._simulate_...(dates).
AssembleColumn ==
    /\ pc = "assemble"
    /\ Len(cols) < Len(Columns)
    /\ LET col == Columns[Len(cols) + 1]
       IN  /\ data' = data @@ (col :> Simulate(col, self.config, dates, seed, draws))
           /\ cols' = Append(cols, col)
           /\ draws' = IF UsesNoise(col) THEN draws + Len(dates) ELSE draws
           /\ noiseLog' = IF UsesNoise(col) THEN noiseLog \o DrawOrder(col, dates)
                          ELSE noiseLog
    /\ UNCHANGED <<pc, mode, choix, selected, self, seed, dates, df, row, csv,
                   figure, report, calls, visited, passes, log>>

\* df = pd.DataFrame(data), and the call of self._add_municipal_trends(df).
MakeFrame ==
    /\ pc = "assemble"
    /\ Len(cols) = Len(Columns)
    /\ df' = data
    /\ row' = 1
    /\ visited' = <<>>
    /\ passes' = passes + 1
    /\ log' = Append(log, "shock")
    /\ pc' = "shock"
    /\ UNCHANGED <<mode, choix, selected, self, seed, draws, dates, data, cols, csv,
                   figure, report, calls, noiseLog>>

\* One iteration of `for i, row in df.iterrows()`.
ShockRow ==
    /\ pc = "shock"
    /\ row <= Len(df["Annee"])
    /\ df' = _add_municipal_trends(df, row)
    /\ visited' = Append(visited, df["Annee"][row])
    /\ row' = IterNext(row)
    /\ UNCHANGED <<pc, mode, choix, selected, self, seed, draws, dates, data, cols,
                   csv, figure, report, calls, passes, noiseLog, log>>

\* generate_financial_data with `return df` placed before the call of
\* _add_municipal_trends: the table is handed on unshocked.
Mut_Return ==
    /\ pc = "shock"
    /\ row = 1
    /\ pc' = "returned"
    /\ UNCHANGED <<mode, choix, selected, self, seed, draws, dates, data, cols, df,
                   row, csv, figure, report, calls, visited, passes, noiseLog, log>>

\* The loop is exhausted: _add_municipal_trends returns, then `return df`.
Return ==
    /\ pc = "shock"
    /\ row > Len(df["Annee"])
    /\ pc' = "returned"
    /\ UNCHANGED <<mode, choix, selected, self, seed, draws, dates, data, cols, df,
                   row, csv, figure, report, calls, visited, passes, noiseLog, log>>

\* main: financial_data.to_csv(output_file, index=False)
ExportCsv ==
    /\ pc = "returned"
    /\ mode = "main"
    /\ csv' = [name |-> <<selected, "_financial_data_2002_2025.csv">>,
               content |-> to_csv(df, cols)]
    /\ log' = Append(log, "csv")
    /\ pc' = "exported"
    /\ UNCHANGED <<mode, choix, selected, self, seed, draws, dates, data, cols, df,
                   row, figure, report, calls, visited, passes, noiseLog>>

\* main: the preview print of five columns of the first rows.
Preview ==
    /\ pc = "exported"
    /\ log' = Append(log, "preview")
    /\ pc' = "previewed"
    /\ UNCHANGED <<mode, choix, selected, self, seed, draws, dates, data, cols, df,
                   row, csv, figure, report, calls, visited, passes, noiseLog>>

\* create_financial_analysis with the year axis re-based in place:
\* `years = df['Annee']` is the column of the frame itself, and
\* `years -= self.start_year` writes through it.
Mut_Charts ==
    /\ \/ pc = "previewed" /\ mode = "main"
       \/ pc = "returned" /\ mode = "api" /\ calls < MaxCalls
    /\ df' = [df EXCEPT !["Annee"] = [k \in 1..Len(@) |-> @[k] - self.start_year]]
    /\ figure' = [name |-> <<self.commune, "_financial_analysis.png">>,
                  axes |-> [k \in 1..Len(Subplots) |-> Subplots[k][1]]]
    /\ calls' = calls + 1
    /\ log' = Append(log, "charts")
    /\ pc' = "charted"
    /\ UNCHANGED <<mode, choix, selected, self, seed, draws, dates, data, cols,
                   row, csv, report, visited, passes, noiseLog>>

\* create_financial_analysis up to plt.show(): the eight subplots, each
\* reading its columns of df, then savefig.  Called by main after the
\* preview, or directly.
Charts ==
    /\ \/ pc = "previewed" /\ mode = "main"
       \/ pc = "returned" /\ mode = "api" /\ calls < MaxCalls
    /\ \A k \in 1..Len(Subplots) : Subplots[k][2] \subseteq DOMAIN df
    /\ figure' = [name |-> <<self.commune, "_financial_analysis.png">>,
                  axes |-> [k \in 1..Len(Subplots) |-> Subplots[k][1]]]
    /\ calls' = calls + 1
    /\ log' = Append(log, "charts")
    /\ pc' = "charted"
    /\ UNCHANGED <<mode, choix, selected, self, seed, draws, dates, data, cols, df,
                   row, csv, report, visited, passes, noiseLog>>

\* _generate_financial_insights with the specialty list consumed while it is
\* printed (`pop` for a read): self.config is changed.
Mut_Insights ==
    /\ pc = "charted"
    /\ report' = InsightsOf(self)
    /\ self' = [self EXCEPT !.config.specialites = Tail(@)]
    /\ log' = Append(log, "insights")
    /\ pc' = IF mode = "main" THEN "done" ELSE "returned"
    /\ UNCHANGED <<mode, choix, selected, seed, draws, dates, data, cols, df,
                   row, csv, figure, calls, visited, passes, noiseLog>>

\* The last statement of create_financial_analysis:
\* self._generate_financial_insights(df); in main the closing prints follow.
Insights ==
    /\ pc = "charted"
    /\ report' = InsightsOf(self)
    /\ log' = Append(log, "insights")
    /\ pc' = IF mode = "main" THEN "done" ELSE "returned"
    /\ UNCHANGED <<mode, choix, selected, self, seed, draws, dates, data, cols, df,
                   row, csv, figure, calls, visited, passes, noiseLog>>

\* _generate_financial_insights(df) called directly.
InsightsDirect ==
    /\ pc = "returned"
    /\ mode = "api"
    /\ calls < MaxCalls
    /\ report' = InsightsOf(self)
    /\ calls' = calls + 1
    /\ log' = Append(log, "insights")
    /\ UNCHANGED <<pc, mode, choix, selected, self, seed, draws, dates, data, cols,
                   df, row, csv, figure, visited, passes, noiseLog>>

Next ==
    \/ \E text \in Inputs : MainSelect(text)
    \/ MainConstruct
    \/ \E commune_name \in CommuneNames : Construct(commune_name)
    \/ BeginGenerate
    \/ AssembleColumn
    \/ MakeFrame
    \/ ShockRow
    \/ Return
    \/ ExportCsv
    \/ Preview
    \/ Charts
    \/ Insights
    \/ InsightsDirect

Spec == Init /\ [][Next]_vars

\* ------------------------------------------------------ helpers of claims

\* The index of the row of year y in table t.
RowOf(t, y) == CHOOSE i \in 1..Len(t["Annee"]) : t["Annee"][i] = y

\* How many times factor f occurs in the sequence s.
Occurrences(f, s) == Cardinality({k \in 1..Len(s) : s[k] = f})

\* The five-rule list of the shock pass as the specification states it:
\* inclusive year range lo..hi (open: no upper end) and the scaled columns.
Rules ==
    << [lo |-> 2002, hi |-> 2005, open |-> FALSE,
        targets |-> << <<"Investissement_Agriculture", 140>>, <<"Investissement_Peche", 130>> >>],
       [lo |-> 2008, hi |-> 2009, open |-> FALSE,
        targets |-> << <<"Recettes_Totales", 94>>, <<"Investissement", 85>>,
                       <<"Autres_Recettes", 88>> >>],
       [lo |-> 2010, hi |-> 2015, open |-> FALSE,
        targets |-> << <<"Investissement_Education", 130>>, <<"Investissement_Sante", 140>> >>],
       [lo |-> 2020, hi |-> 2020, open |-> FALSE,
        targets |-> << <<"Autres_Recettes", 78>>, <<"Dotations_Etat", 115>> >>],
       [lo |-> 2022, hi |-> 2022, open |-> TRUE,
        targets |-> << <<"Investissement", 114>>, <<"Investissement_Agriculture", 112>>,
                       <<"Investissement_Peche", 110>> >>] >>

RuleMatches(r, year) == r.lo <= year /\ (r.open \/ year <= r.hi)

\* The factors rule r multiplies into column col of a row of the given year.
RuleFactors(r, col, year) ==
    IF RuleMatches(r, year) /\ \E k \in 1..Len(r.targets) : r.targets[k][1] = col
    THEN LET k == CHOOSE j \in 1..Len(r.targets) : r.targets[j][1] = col
         IN  <<r.targets[k][2]>>
    ELSE <<>>

\* Every factor the rule list multiplies into column col of a row of the year.
AllRuleFactors(col, year) ==
    RuleFactors(Rules[1], col, year) \o RuleFactors(Rules[2], col, year)
      \o RuleFactors(Rules[3], col, year) \o RuleFactors(Rules[4], col, year)
      \o RuleFactors(Rules[5], col, year)

\* Table t with, in each row independently, every matching rule applied.
ApplyRules(t) ==
    [c \in DOMAIN t |->
        IF c = "Annee" THEN t[c]
        ELSE [i \in 1..Len(t[c]) |->
                [t[c][i] EXCEPT !.shock = @ \o AllRuleFactors(c, t["Annee"][i])]]]

\* The sign of an integer.
Sgn(x) == IF x > 0 THEN 1 ELSE IF x < 0 THEN -1 ELSE 0

RECURSIVE Product(_)
\* The product of a sequence of integers.
Product(s) == IF s = <<>> THEN 1 ELSE Head(s) * Product(Tail(s))

RECURSIVE Pow100(_)
Pow100(n) == IF n = 0 THEN 1 ELSE 100 * Pow100(n - 1)

\* The sign of the value of a cell: the product of the signs of its factors.
SignOf(cell) ==
    Sgn(cell.base) * Sgn(cell.frac[1]) * Sgn(cell.frac[2]) * Sgn(cell.growth)
      * Sgn(cell.ymult) * Sgn(cell.spec) * Sgn(cell.noise)
      * Product([k \in 1..Len(cell.shock) |-> Sgn(cell.shock[k])])

\* value(a) > value(b) for two cells with the same base, fraction, specialty
\* multiplier and noise, all positive: the comparison of
\*   growth * ymult * shock / 100^Len(shock)
\* cross-multiplied by the powers of 100 the two sides do not share.
Greater(a, b) ==
    /\ a.base = b.base /\ a.frac = b.frac /\ a.spec = b.spec /\ a.noise = b.noise
    /\ a.base > 0 /\ a.frac[1] > 0 /\ a.frac[2] > 0 /\ a.spec > 0 /\ a.noise > 0
    /\ LET la == Len(a.shock)
           lb == Len(b.shock)
           m == IF la < lb THEN la ELSE lb
       IN  a.growth * a.ymult * Product(a.shock) * Pow100(lb - m)
             > b.growth * b.ymult * Product(b.shock) * Pow100(la - m)

\* The sector-investment columns as documented: fraction of budget_base (in
\* 1/100), growth rate (in 1/1000), cycle years and cycle multiplier (in
\* 1/100).
Sectors ==
    << [col |-> "Investissement_Agriculture", frac |-> 7, rate |-> 26,
        cycle |-> {2005, 2010, 2015, 2020}, mult |-> 180],
       [col |-> "Investissement_Peche", frac |-> 6, rate |-> 28,
        cycle |-> {2007, 2013, 2019, 2024}, mult |-> 170],
       [col |-> "Investissement_Transport", frac |-> 5, rate |-> 24,
        cycle |-> {2006, 2012, 2018, 2023}, mult |-> 160],
       [col |-> "Investissement_Education", frac |-> 6, rate |-> 27,
        cycle |-> {2008, 2014, 2020}, mult |-> 160],
       [col |-> "Investissement_Sante", frac |-> 5, rate |-> 25,
        cycle |-> {2009, 2015, 2021}, mult |-> 170],
       [col |-> "Investissement_Culture", frac |-> 4, rate |-> 23,
        cycle |-> {2010, 2016, 2022}, mult |-> 170] >>

\* The cell of column col and year y has the documented trend-only part:
\* budget_base x fraction x (1 + growth x (y - 2002)) x specialty multiplier,
\* with the noise at 1.
HasTrendOf(cell, s, y) ==
    /\ cell.base = self.config.budget_base
    /\ cell.frac = <<s.frac, 100>>
    /\ cell.growth = 1000 + s.rate * (y - 2002)
    /\ cell.spec > 0
    /\ cell.noise = 100

\* ------------------------------------------------------------------ claims

\* C1: for every commune name that is not a key of the registry the
\* constructor succeeds and the resolved config is the "default" entry field
\* for field (2000, 30, district, the default specialty list); for every
\* registered name it is that name's own entry.
C1_FallbackToDefault ==
    /\ pc = "new" => \A n \in CommuneNames : ENABLED Construct(n)
    /\ pc \notin {"new", "selected"} =>
          IF self.commune \in {"Mata-Utu", "Hahake", "Hihifo", "Mua", "Sigave", "Alo", "default"}
          THEN self.config = configs[self.commune]
          ELSE /\ self.config = configs["default"]
               /\ self.config.population_base = 2000
               /\ self.config.budget_base = 30
               /\ self.config.type = "district"
               /\ self.config.specialites =
                     <<"agriculture", "peche", "artisanat", "services_locaux">>

C1_Witness ==
    /\ pc = "constructed"
    /\ self.commune = "Leava"
    /\ self.config.population_base = 2000

\* C2: the returned table has end_year - start_year + 1 = 24 rows, Annee is
\* 2002, 2003, ..., 2025 in increasing order without gap or duplicate, and
\* every row has a value in each of the 23 fixed columns.
C2_TableShape ==
    pc = "returned" =>
        /\ cols = Columns
        /\ Len(cols) = 23
        /\ DOMAIN df = {Columns[k] : k \in 1..23}
        /\ Cardinality(DOMAIN df) = 23
        /\ \A c \in DOMAIN df :
              /\ Len(df[c]) = self.end_year - self.start_year + 1
              /\ Len(df[c]) = 24
        /\ \A i \in 1..24 : df["Annee"][i] = 2001 + i

C2_Witness ==
    /\ pc = "returned"
    /\ self.commune = "Paris"
    /\ df["Annee"][1] = 2002
    /\ df["Annee"][Len(df["Annee"])] = 2025

\* C3: the table _add_municipal_trends leaves equals the assembled table
\* with, in each row independently, every rule of the five-rule list applied
\* whose year range contains the row's year; no matching rule is skipped,
\* the 2010..2015 rule (an elif of the 2008..2009 test) included.
C3_PassEqualsRuleList ==
    pc = "returned" => df = ApplyRules(data)

C3_Witness ==
    /\ pc = "returned"
    /\ df["Investissement_Sante"][RowOf(df, 2012)].shock = <<140>>
    /\ df["Dotations_Etat"][RowOf(df, 2020)].shock = <<115>>
    /\ df["Dotations_Etat"][RowOf(df, 2021)].shock = <<>>

\* C4: the 2008-2009 window is inclusive: once visited, the rows of 2008 and
\* 2009 have Recettes_Totales, Investissement and Autres_Recettes scaled by
\* 0.94, 0.85 and 0.88, and the rows of 2007 and 2010 do not.
C4_CrisisWindowInclusive ==
    \A y \in {2007, 2008, 2009, 2010} :
        (pc \in {"shock", "returned"} /\ \E k \in 1..Len(visited) : visited[k] = y) =>
            LET i == RowOf(df, y)
                n == IF y \in {2008, 2009} THEN 1 ELSE 0
            IN  /\ Occurrences(94, df["Recettes_Totales"][i].shock) = n
                /\ Occurrences(85, df["Investissement"][i].shock) = n
                /\ Occurrences(88, df["Autres_Recettes"][i].shock) = n

C4_Witness ==
    /\ pc = "shock"
    /\ Len(visited) = 9
    /\ visited[9] = 2010
    /\ df["Recettes_Totales"][RowOf(df, 2008)].shock = <<94>>
    /\ df["Recettes_Totales"][RowOf(df, 2007)].shock = <<>>

\* C5: in one call the shock pass runs exactly once, visits every row exactly
\* once in increasing Annee order (2002 first, 2025 last) and multiplies each
\* targeted cell by each applicable rule factor exactly once: no cell is
\* scaled twice by the same rule, and no row still to visit is scaled.
C5_PassOnceInOrder ==
    /\ passes <= 1
    /\ pc \in {"shock", "returned"} =>
          /\ passes = 1
          /\ Len(visited) <= Len(df["Annee"])
          /\ \A k \in 1..Len(visited) : visited[k] = 2001 + k /\ visited[k] = df["Annee"][k]
          /\ \A c \in DOMAIN df \ {"Annee"} : \A i \in 1..Len(df[c]) :
                \A r \in 1..Len(Rules) : \A t \in 1..Len(Rules[r].targets) :
                    Rules[r].targets[t][1] = c =>
                        Occurrences(Rules[r].targets[t][2], df[c][i].shock) =
                            IF i <= Len(visited) /\ RuleMatches(Rules[r], df["Annee"][i])
                            THEN 1 ELSE 0
    /\ pc = "returned" =>
          /\ Len(visited) = 24
          /\ visited[1] = 2002
          /\ visited[24] = 2025

C5_Witness ==
    /\ pc = "returned"
    /\ passes = 1
    /\ Len(visited) = 24
    /\ df["Investissement"][RowOf(df, 2025)].shock = <<114>>

\* C6: the Population cell of year index i = Annee - 2002 equals
\* population_base x (1 + r x i), r = 0.01 for chef_lieu, 0.008 for
\* district_futuna and 0.009 for every other type, unrecognized ones
\* included; row 2002 is population_base and, for chef_lieu, row 2003 is
\* population_base x 1.01.  Recettes_Totales selects its trend rate the same
\* way (0.028 / 0.025 / 0.026).
C6_PopulationTrend ==
    /\ \A t \in {"chef_lieu", "district", "district_futuna", "", "village", "Chef_Lieu"} :
          /\ PopulationRate(t) = CASE t = "chef_lieu" -> 10
                                   [] t = "district_futuna" -> 8
                                   [] OTHER -> 9
          /\ RevenueRate(t) = CASE t = "chef_lieu" -> 28
                                [] t = "district_futuna" -> 25
                                [] OTHER -> 26
    /\ pc = "returned" =>
          LET ty == self.config.type
              r == CASE ty = "chef_lieu" -> 10 [] ty = "district_futuna" -> 8 [] OTHER -> 9
              q == CASE ty = "chef_lieu" -> 28 [] ty = "district_futuna" -> 25 [] OTHER -> 26
          IN  /\ \A k \in 1..Len(df["Annee"]) :
                    LET i == df["Annee"][k] - 2002
                    IN  /\ df["Population"][k] =
                              [base |-> self.config.population_base, frac |-> <<1, 1>>,
                               growth |-> 1000 + r * i, ymult |-> 100, spec |-> 10,
                               noise |-> 100, shock |-> <<>>]
                        /\ df["Recettes_Totales"][k].base = self.config.budget_base
                        /\ df["Recettes_Totales"][k].frac = <<1, 1>>
                        /\ df["Recettes_Totales"][k].growth = 1000 + q * i
              /\ df["Population"][RowOf(df, 2002)].growth = 1000
              /\ ty = "chef_lieu" => df["Population"][RowOf(df, 2003)].growth = 1010

C6_Witness ==
    /\ pc = "returned"
    /\ self.config.type = "chef_lieu"
    /\ df["Population"][2].base = 1200
    /\ df["Population"][2].growth = 1010

\* C7: with every noise draw 1, in the returned table each sector-investment
\* column has, at each of its declared cycle years Y, a value strictly greater
\* than at Y - 1 and at Y + 1.
C7_CycleYearPeaks ==
    (pc = "returned" /\ seed = 0) =>
        \A k \in 1..Len(Sectors) : \A y \in Sectors[k].cycle :
            LET c == Sectors[k].col
            IN  /\ Greater(df[c][RowOf(df, y)], df[c][RowOf(df, y - 1)])
                /\ Greater(df[c][RowOf(df, y)], df[c][RowOf(df, y + 1)])

C7_Witness ==
    /\ pc = "returned"
    /\ seed = 0
    /\ df["Investissement_Sante"][RowOf(df, 2009)].ymult = 170
    /\ df["Investissement_Sante"][RowOf(df, 2010)].shock = <<140>>

\* C8 as claimed: with every noise draw 1, in the returned table the cell of
\* each sector column at each of its cycle years is exactly the documented
\* cycle multiplier times the trend-only value of that year.
C8_CycleRatioExact ==
    (pc = "returned" /\ seed = 0) =>
        \A k \in 1..Len(Sectors) : \A y \in Sectors[k].cycle :
            LET cell == df[Sectors[k].col][RowOf(df, y)]
            IN  /\ HasTrendOf(cell, Sectors[k], y)
                /\ cell.ymult * Product(cell.shock)
                      = Sectors[k].mult * Pow100(Len(cell.shock))

\* The factor (in 1/100) the shock pass multiplies into a sector column at a
\* cycle year of that column.
CycleShock(col, y) ==
    CASE col = "Investissement_Agriculture" /\ y = 2005 -> 140
      [] col = "Investissement_Education" /\ y = 2014 -> 130
      [] col = "Investissement_Sante" /\ y = 2015 -> 140
      [] col = "Investissement_Peche" /\ y = 2024 -> 110
      [] OTHER -> 100

\* C8 amended: with every noise draw 1, in the returned table the cell of each
\* sector column at each of its cycle years is the documented cycle
\* multiplier times the trend-only value of that year times the factor of
\* the shock pass for that cell: 1.4 for agriculture 2005, 1.3 for
\* education 2014, 1.4 for health 2015, 1.10 for fishing 2024, 1 elsewhere.
C8_CycleRatioWithShock ==
    (pc = "returned" /\ seed = 0) =>
        \A k \in 1..Len(Sectors) : \A y \in Sectors[k].cycle :
            LET cell == df[Sectors[k].col][RowOf(df, y)]
            IN  /\ HasTrendOf(cell, Sectors[k], y)
                /\ cell.ymult * Product(cell.shock) * 100
                      = Sectors[k].mult * CycleShock(Sectors[k].col, y)
                          * Pow100(Len(cell.shock))

C8_Witness ==
    /\ pc = "returned"
    /\ seed = 0
    /\ df["Investissement_Agriculture"][RowOf(df, 2005)].ymult = 180
    /\ df["Investissement_Agriculture"][RowOf(df, 2005)].shock = <<140>>
    /\ df["Investissement_Culture"][RowOf(df, 2016)].shock = <<>>

\* C9: in every row of the returned table Population > 0 and Menages > 0
\* whatever the noise draws are: neither column takes a noise draw and the
\* shock pass touches neither.
C9_PopulationPositive ==
    pc = "returned" =>
        \A i \in 1..Len(df["Annee"]) : \A c \in {"Population", "Menages"} :
            /\ SignOf(df[c][i]) = 1
            /\ df[c][i].noise = 100
            /\ df[c][i].shock = <<>>
            /\ df[c][i] = data[c][i]

C9_Witness ==
    /\ pc = "returned"
    /\ seed # 0
    /\ \E i \in 1..Len(df["Annee"]) : df["Recettes_Totales"][i].noise <= 0
    /\ SignOf(df["Menages"][24]) = 1

\* C10: in every row of the returned table Taux_Endettement > 0 and
\* Taux_Fiscalite > 0 for every value the per-cell noise draw can take.
C10_RatiosPositive ==
    pc = "returned" =>
        \A i \in 1..Len(df["Annee"]) :
            /\ SignOf(df["Taux_Endettement"][i]) = 1
            /\ SignOf(df["Taux_Fiscalite"][i]) = 1

\* C11: once generate_financial_data has returned, no later step (CSV
\* export, preview, create_financial_analysis with its eight plots,
\* _generate_financial_insights) changes the table: a step changes df only
\* when it is the creation of the frame or an iteration of the shock pass.
C11_TableReadOnlyAfterReturn ==
    [][df' # df => (pc = "shock" \/ (pc = "assemble" /\ pc' = "shock"))]_vars

C11_Witness ==
    /\ pc = "done"
    /\ mode = "main"
    /\ Len(figure.axes) = 8
    /\ report.commune = self.commune
    /\ csv.content = to_csv(df, cols)
    /\ df = ApplyRules(data)

\* The stages of a run of main, in order.
Stages == <<"config", "series", "shock", "csv", "charts", "insights">>

IsStage(x) == x # "preview"

\* C12: in a run of main the stages occur once each in the order config
\* resolution, generation of the 22 series, shock pass, CSV export, chart
\* creation, insights report; the shock pass starts only when all columns
\* are assembled, and the export follows the end of the shock pass, so the
\* exported file holds the post-shock values.
C12_StageOrder ==
    /\ mode = "main" =>
          LET done == SelectSeq(log, IsStage)
          IN  /\ Len(done) <= Len(Stages)
              /\ done = SubSeq(Stages, 1, Len(done))
              /\ pc = "done" => done = Stages
    /\ pc = "shock" =>
          /\ cols = Columns
          /\ Len(cols) = 23
          /\ DOMAIN df = {Columns[k] : k \in 1..Len(Columns)}
    /\ csv # NoFile =>
          /\ pc \in {"exported", "previewed", "charted", "done"}
          /\ Len(visited) = Len(df["Annee"])
          /\ csv.content = to_csv(ApplyRules(data), Columns)

C12_Witness ==
    /\ pc = "done"
    /\ mode = "main"
    /\ log = <<"config", "series", "shock", "csv", "preview", "charts", "insights">>
    /\ csv.content.lines[7][4].shock = <<94>>

\* C13: in main, every typed text that is not an integer k with 1 <= k <= 6
\* (non-numeric text, 0, a negative number, 7 or more) selects "Mata-Utu"
\* and the run goes on; a valid k selects the k-th of the six names.  So the
\* analyzer of main always has one of the six registered names and never the
\* default config.
C13_InvalidChoiceSelectsMataUtu ==
    /\ pc = "new" => \A text \in Inputs : ENABLED MainSelect(text)
    /\ (mode = "main" /\ pc # "new") =>
          /\ selected = CASE choix \in {"1"} -> "Mata-Utu"
                          [] choix \in {"2"} -> "Hahake"
                          [] choix \in {"3", " 3 "} -> "Hihifo"
                          [] choix \in {"4"} -> "Mua"
                          [] choix \in {"5"} -> "Sigave"
                          [] choix \in {"6"} -> "Alo"
                          [] OTHER -> "Mata-Utu"
          /\ selected \in {"Mata-Utu", "Hahake", "Hihifo", "Mua", "Sigave", "Alo"}
          /\ pc = "selected" => ENABLED MainConstruct
          /\ pc # "selected" =>
                /\ self.commune = selected
                /\ self.config = configs[selected]

C13_Witness ==
    /\ mode = "main"
    /\ pc = "constructed"
    /\ choix = "abc"
    /\ self.commune = "Mata-Utu"
    /\ self.config.type = "chef_lieu"

\* The specialty tag of each sector column with its higher and lower
\* multiplier (in 1/10), as documented.
SpecialtyTable ==
    << [col |-> "Investissement_Agriculture", tag |-> "agriculture", hi |-> 15, lo |-> 8],
       [col |-> "Investissement_Peche", tag |-> "peche", hi |-> 16, lo |-> 7],
       [col |-> "Investissement_Transport", tag |-> "transport", hi |-> 14, lo |-> 9],
       [col |-> "Investissement_Education", tag |-> "education", hi |-> 14, lo |-> 9],
       [col |-> "Investissement_Sante", tag |-> "sante", hi |-> 15, lo |-> 9],
       [col |-> "Investissement_Culture", tag |-> "culture", hi |-> 16, lo |-> 7] >>

\* C14: the specialty multiplier of each sector column is the higher constant
\* exactly when the specialty list of the config contains the tag of the
\* column and the lower one otherwise, the same in every year (agriculture
\* 1.5 / 0.8, peche 1.6 / 0.7, transport 1.4 / 0.9, education 1.4 / 0.9,
\* sante 1.5 / 0.9, culture 1.6 / 0.7); no other column depends on the list.
C14_SpecialtyMultiplier ==
    pc = "returned" =>
        /\ \A k \in 1..Len(SpecialtyTable) : \A i \in 1..Len(df["Annee"]) :
              LET e == SpecialtyTable[k]
                  has == \E j \in 1..Len(self.config.specialites) :
                            self.config.specialites[j] = e.tag
              IN  df[e.col][i].spec = IF has THEN e.hi ELSE e.lo
        /\ \A c \in DOMAIN df \ ({"Annee"} \cup {SpecialtyTable[k].col : k \in 1..6}) :
              \A i \in 1..Len(df[c]) : df[c][i].spec = 10

C14_Witness ==
    /\ pc = "returned"
    /\ self.commune = "Hahake"
    /\ df["Investissement_Culture"][24].spec = 16
    /\ df["Investissement_Peche"][24].spec = 7

\* C15: with noise 1 the ratio columns have budget-independent bases and a
\* one-sided trend from 2010: for every config Taux_Endettement = 0.70 and
\* Taux_Fiscalite = 0.80 in 2002..2010, and for Y > 2010
\* Taux_Endettement = 0.70 x (1 - 0.01 x (Y - 2010)) and
\* Taux_Fiscalite = 0.80 x (1 + 0.004 x (Y - 2010)).
C15_RatioTrend ==
    (pc = "returned" /\ seed = 0) =>
        \A i \in 1..Len(df["Annee"]) :
            LET y == df["Annee"][i]
            IN  /\ df["Taux_Endettement"][i] =
                      [base |-> 1, frac |-> <<70, 100>>,
                       growth |-> IF y <= 2010 THEN 1000 ELSE 1000 - 10 * (y - 2010),
                       ymult |-> 100, spec |-> 10, noise |-> 100, shock |-> <<>>]
                /\ df["Taux_Fiscalite"][i] =
                      [base |-> 1, frac |-> <<80, 100>>,
                       growth |-> IF y <= 2010 THEN 1000 ELSE 1000 + 4 * (y - 2010),
                       ymult |-> 100, spec |-> 10, noise |-> 100, shock |-> <<>>]

C15_Witness ==
    /\ pc = "returned"
    /\ seed = 0
    /\ self.commune = "Sigave"
    /\ df["Taux_Endettement"][RowOf(df, 2010)].growth = 1000
    /\ df["Taux_Endettement"][RowOf(df, 2025)].growth = 850
    /\ df["Taux_Fiscalite"][RowOf(df, 2025)].growth = 1060

\* The standard deviation (in 1/100) of the noise of each financial column.
NoiseSd(col) ==
    CASE col = "Recettes_Totales" -> 8 [] col = "Impots_Locaux" -> 9
      [] col = "Dotations_Etat" -> 6 [] col = "Dotations_Territoriales" -> 7
      [] col = "Autres_Recettes" -> 10 [] col = "Depenses_Totales" -> 7
      [] col = "Fonctionnement" -> 6 [] col = "Investissement" -> 16
      [] col = "Charge_Dette" -> 10 [] col = "Personnel" -> 5
      [] col = "Epargne_Brute" -> 13 [] col = "Dette_Totale" -> 9
      [] col = "Taux_Endettement" -> 7 [] col = "Taux_Fiscalite" -> 4
      [] col = "Investissement_Agriculture" -> 15 [] col = "Investissement_Peche" -> 16
      [] col = "Investissement_Transport" -> 14 [] col = "Investissement_Education" -> 17
      [] col = "Investissement_Sante" -> 16 [] col = "Investissement_Culture" -> 15

\* C16: in one call of generate_financial_data every cell of the 20 financial
\* columns is scaled by one noise draw made for it alone; no draw serves two
\* cells; Population and Menages take no draw; the call takes 20 x 24 = 480
\* draws, metric by metric in column order and, within a metric, in
\* increasing year order.
C16_OneDrawPerCell ==
    /\ pc \in {"assemble", "returned"} =>
          /\ Len(noiseLog) <= draws
          /\ \A n \in 1..Len(noiseLog) :
                LET c == Columns[3 + ((n - 1) \div 24) + 1]
                    k == ((n - 1) % 24) + 1
                IN  /\ noiseLog[n] = <<c, k>>
                    /\ data[c][k].noise = Normal(NoiseSd(c), seed, draws - Len(noiseLog) + n - 1)
    /\ pc = "returned" =>
          /\ Len(noiseLog) = 480
          /\ Cardinality({noiseLog[n] : n \in 1..Len(noiseLog)}) = 480
          /\ \A n \in 1..Len(noiseLog) : noiseLog[n][1] \notin {"Population", "Menages"}
          /\ \A i \in 1..24 : df["Population"][i].noise = 100 /\ df["Menages"][i].noise = 100

C16_Witness ==
    /\ pc = "returned"
    /\ seed = 1
    /\ draws = 480
    /\ noiseLog[1] = <<"Recettes_Totales", 1>>
    /\ noiseLog[25] = <<"Impots_Locaux", 1>>
    /\ noiseLog[480] = <<"Investissement_Culture", 24>>
    /\ df["Recettes_Totales"][1].noise # df["Recettes_Totales"][2].noise

\* C17: the config is resolved once, in the constructor, and never modified:
\* after any sequence of generate_financial_data, create_financial_analysis
\* and _generate_financial_insights calls, self.config, self.commune,
\* start_year and end_year are as they were right after construction.
C17_ConfigNeverModified ==
    /\ [](Occurrences("config", log) <= 1)
    /\ [](pc \notin {"new", "selected"} =>
            /\ Occurrences("config", log) = 1
            /\ self.start_year = 2002
            /\ self.end_year = 2025
            /\ self.config = IF self.commune \in DOMAIN configs
                             THEN configs[self.commune] ELSE configs["default"])
    /\ [][pc \notin {"new", "selected"} => self' = self]_vars

C17_Witness ==
    /\ mode = "api"
    /\ pc = "returned"
    /\ calls = MaxCalls
    /\ report.specialites = <<"peche", "agriculture", "tourisme", "patrimoine">>
    /\ self.config = configs["Hihifo"]

\* The columns the shock pass scales.
ShockTargets ==
    {"Investissement_Agriculture", "Investissement_Peche", "Recettes_Totales",
     "Investissement", "Autres_Recettes", "Investissement_Education",
     "Investissement_Sante", "Dotations_Etat"}

\* C18: the footprint of the shock pass: the five windows are pairwise
\* disjoint, so a row matches at most one rule; the rows of 2006, 2007,
\* 2016, 2017, 2018, 2019 and 2021 are unchanged; in every row the 15
\* columns outside the eight targets are unchanged; the row count and the
\* row order are unchanged.
C18_ShockFootprint ==
    pc \in {"shock", "returned"} =>
        /\ DOMAIN df = DOMAIN data
        /\ Cardinality(DOMAIN df \ ShockTargets) = 15
        /\ df["Annee"] = data["Annee"]
        /\ \A c \in DOMAIN df : Len(df[c]) = Len(data[c])
        /\ \A c \in DOMAIN df \ ShockTargets : df[c] = data[c]
        /\ \A i \in 1..Len(df["Annee"]) :
              /\ df["Annee"][i] \in {2006, 2007, 2016, 2017, 2018, 2019, 2021} =>
                    \A c \in DOMAIN df : df[c][i] = data[c][i]
              /\ Cardinality({r \in 1..Len(Rules) : RuleMatches(Rules[r], df["Annee"][i])}) <= 1
              /\ \E r \in 1..Len(Rules) :
                    \A c \in ShockTargets :
                        /\ Len(df[c][i].shock) <= 1
                        /\ df[c][i].shock # <<>> =>
                              \E t \in 1..Len(Rules[r].targets) : Rules[r].targets[t][1] = c

C18_Witness ==
    /\ pc = "returned"
    /\ df["Investissement_Peche"][RowOf(df, 2024)].shock = <<110>>
    /\ df["Investissement_Peche"][RowOf(df, 2021)].shock = <<>>
    /\ df["Dette_Totale"] = data["Dette_Totale"]

\* C19: no entry of the registry carries the tag transport, education or
\* sante, so for every commune name the specialty multiplier of
\* Investissement_Transport, Investissement_Education and
\* Investissement_Sante is the lower constant 0.9; the higher constants
\* 1.4 / 1.4 / 1.5 are never used.
C19_UnreachableSpecialties ==
    /\ \A n \in DOMAIN configs : \A tag \in {"transport", "education", "sante"} :
          \A j \in 1..Len(configs[n].specialites) : configs[n].specialites[j] # tag
    /\ pc = "returned" =>
          \A c \in {"Investissement_Transport", "Investissement_Education",
                    "Investissement_Sante"} :
              \A i \in 1..Len(df[c]) : df[c][i].spec = 9

C19_Witness ==
    /\ pc = "returned"
    /\ mode = "main"
    /\ self.commune = "Mata-Utu"
    /\ df["Investissement_Transport"][1].spec = 9
    /\ df["Investissement_Sante"][24].spec = 9

====
